---- MODULE Spec2Model ----
(***************************************************************************)
(* Model of aqa.py (assembly quality assessment).                          *)
(*                                                                         *)
(* Encoding.  Python None is the empty tuple and a present optional value  *)
(* v is the 1-tuple <<v>>.  GC percentages and the float GC thresholds are *)
(* kept in hundredths of a percent (50.00 % is 5000), so round(x, 2) is a  *)
(* rounding to an integer.  A sequence record is abstracted to its length  *)
(* and its counts of 'G' and 'C'.  A function's outcome is a record:       *)
(* Return(v) or Raise(exception name).                                     *)
(***************************************************************************)
EXTENDS Integers, Sequences, FiniteSets, TLC

VARIABLES
    args,              \* the argparse namespace handed to main
    listdir,           \* what os.listdir(os.getcwd()) returns, in its order
    files,             \* file system: path -> records SeqIO.parse yields
    input_files,       \* main: list of paths to assess
    pc,                \* main: position
    idx,               \* main: number of loop iterations started
    fasta_file_count,  \* main: counter of line 180
    locals,            \* main: the tuple unpacked at line 192
    data,              \* main: list of result records
    reports,           \* report artifacts written (format -> rows)
    stdout,            \* the count printed at line 217
    exc,               \* the exception that ended main, if any
    call,              \* unit call: inputs of assess_eligibility
    ret                \* unit call: function applied and its outcome

vars == <<args, listdir, files, input_files, pc, idx, fasta_file_count,
          locals, data, reports, stdout, exc, call, ret>>

mainVars == <<args, listdir, input_files, pc, idx, fasta_file_count,
              locals, data, reports, stdout, exc>>

----------------------------------------------------------------------------
(* Bounds *)

MaxContigs == 3      \* records per file, unit specifications
MaxLenUnits == 6     \* contig lengths are 100, 200, ... 100 * MaxLenUnits
MaxFiles == 3        \* entries in a directory listing
MaxCutoff == 3       \* contig_cutoff values 1 .. MaxCutoff

----------------------------------------------------------------------------
(* Python values *)

None == <<>>

Some(v) == <<v>>

Return(v) == [kind |-> "return", value |-> v]

Raise(e) == [kind |-> "raise", exc |-> e]

RECURSIVE sum(_)
sum(s) == IF s = <<>> THEN 0 ELSE s[1] + sum(Tail(s))

RECURSIVE Insert(_, _)
Insert(x, s) ==
    IF s = <<>> THEN <<x>>
    ELSE IF x < s[1] THEN <<x>> \o s
    ELSE <<s[1]>> \o Insert(x, Tail(s))

RECURSIVE sorted(_)
sorted(s) == IF s = <<>> THEN <<>> ELSE Insert(s[Len(s)], sorted(SubSeq(s, 1, Len(s) - 1)))

RECURSIVE InsertDesc(_, _)
InsertDesc(x, s) ==
    IF s = <<>> THEN <<x>>
    ELSE IF x > s[1] THEN <<x>> \o s
    ELSE <<s[1]>> \o InsertDesc(x, Tail(s))

RECURSIVE sorted_reverse(_)
sorted_reverse(s) ==
    IF s = <<>> THEN <<>>
    ELSE InsertDesc(s[Len(s)], sorted_reverse(SubSeq(s, 1, Len(s) - 1)))

\* round(n / d) for n >= 0, d > 0: the nearest integer, an exact tie going to
\* the even neighbour.  (A tie that the binary float cannot represent is
\* decided by the float's error; the inputs drawn below produce no tie.)
round(n, d) ==
    LET q == n \div d
        r == n % d
    IN  IF 2 * r < d THEN q
        ELSE IF 2 * r > d THEN q + 1
        ELSE IF q % 2 = 0 THEN q ELSE q + 1

----------------------------------------------------------------------------
(* Metrics *)

\* The loop of lines 18-21.  half_length is total_length / 2, so
\* cumulative_length >= half_length is 2 * cumulative_length >= total_length.
RECURSIVE N50Loop(_, _, _, _)
N50Loop(sorted_lengths, i, cumulative_length, total_length) ==
    IF i > Len(sorted_lengths) THEN None
    ELSE LET length == sorted_lengths[i]
             cumulative == cumulative_length + length
         IN  IF 2 * cumulative >= total_length THEN Some(length)
             ELSE N50Loop(sorted_lengths, i + 1, cumulative, total_length)

calculate_N50(sequence_lengths) ==
    N50Loop(sorted(sequence_lengths), 1, 0, sum(sequence_lengths))

\* The loop of lines 29-32; i is idx + 1.
RECURSIVE L50Loop(_, _, _, _)
L50Loop(sorted_lengths, i, cumulative_length, total_length) ==
    IF i > Len(sorted_lengths) THEN None
    ELSE LET length == sorted_lengths[i]
             cumulative == cumulative_length + length
         IN  IF 2 * cumulative >= total_length THEN <<length, i>>
             ELSE L50Loop(sorted_lengths, i + 1, cumulative, total_length)

\* calculate_L50 with the reverse=True of line 27 forgotten
calculate_L50_ascending(sequence_lengths) ==
    L50Loop(sorted(sequence_lengths), 1, 0, sum(sequence_lengths))

calculate_L50(sequence_lengths) ==
    L50Loop(sorted_reverse(sequence_lengths), 1, 0, sum(sequence_lengths))

calculate_genome_size(sequence_lengths) == sum(sequence_lengths)

calculate_gc_content(sequence) ==
    LET gc_count == sequence.G + sequence.C
        total_count == sequence.length
    IN  IF total_count = 0 THEN Raise("ZeroDivisionError")
        ELSE Return(round(gc_count * 10000, total_count))

\* SeqIO.parse(file_path, 'fasta'): the records of the file, or the failure
\* to open it.
SeqIO_parse(file_path) ==
    IF file_path \in DOMAIN files THEN Return(files[file_path])
    ELSE Raise("FileNotFoundError")

\* The loop of lines 63-71 from record i on; acc holds the lists and the
\* counter of lines 56-61 (num_contigs_list and genome_size_list repeat
\* n50_list: a 1 and the length per record).
RECURSIVE RecordLoop(_, _, _, _)
RecordLoop(records, i, acc, cont_size_limit) ==
    IF i > Len(records) THEN Return(acc)
    ELSE LET sequence_length == records[i].length
             gc == calculate_gc_content(records[i])
         IN  IF gc.kind = "raise" THEN gc
             ELSE RecordLoop(records, i + 1,
                    [n50_list |-> Append(acc.n50_list, sequence_length),
                     num_contigs_list |-> Append(acc.num_contigs_list, 1),
                     genome_size_list |-> Append(acc.genome_size_list, sequence_length),
                     gc_content_list |-> Append(acc.gc_content_list, round(gc.value, 1)),
                     contigs_shorter_than_limit |->
                         IF sequence_length < cont_size_limit
                         THEN acc.contigs_shorter_than_limit + 1
                         ELSE acc.contigs_shorter_than_limit],
                    cont_size_limit)

process_fasta_file(file_path, cont_size_limit) ==
    LET parsed == SeqIO_parse(file_path)
    IN  IF parsed.kind = "raise" THEN parsed
        ELSE
        LET loop == RecordLoop(parsed.value, 1,
                       [n50_list |-> <<>>, num_contigs_list |-> <<>>,
                        genome_size_list |-> <<>>, gc_content_list |-> <<>>,
                        contigs_shorter_than_limit |-> 0],
                       cont_size_limit)
        IN  IF loop.kind = "raise" THEN loop
            ELSE
            LET acc == loop.value
                n50 == calculate_N50(acc.n50_list)
                l50 == calculate_L50(acc.n50_list)
            IN  IF l50 = None THEN Raise("TypeError")   \* unpacking None, line 74
                ELSE Return(
                    [n50 |-> n50,
                     l50 |-> l50[1],
                     num_contigs |-> sum(acc.num_contigs_list),
                     contigs_shorter_than_limit |-> acc.contigs_shorter_than_limit,
                     genome_size |-> calculate_genome_size(acc.genome_size_list),
                     gc_content_rounded |->
                         round(sum(acc.gc_content_list), Len(acc.gc_content_list))])

cont_size_limit_default == 500

----------------------------------------------------------------------------
(* Classification *)

\* assess_eligibility with the contig comparison of line 49 made strict
assess_eligibility_strict(num_contigs, genome_size, gc_content, contig_cutoff, genome_size_min, genome_size_max, gc_content_min, gc_content_max) ==
    IF \/ contig_cutoff = None
       \/ genome_size_min = None
       \/ genome_size_max = None
       \/ gc_content_min = None
       \/ gc_content_max = None
    THEN ""
    ELSE IF /\ num_contigs < contig_cutoff[1]
            /\ genome_size_min[1] <= genome_size
            /\ genome_size <= genome_size_max[1]
            /\ gc_content_min[1] <= gc_content
            /\ gc_content <= gc_content_max[1]
         THEN "Eligible"
         ELSE "Not Eligible"

assess_eligibility(num_contigs, genome_size, gc_content, contig_cutoff, genome_size_min, genome_size_max, gc_content_min, gc_content_max) ==
    IF \/ contig_cutoff = None
       \/ genome_size_min = None
       \/ genome_size_max = None
       \/ gc_content_min = None
       \/ gc_content_max = None
    THEN ""
    ELSE IF /\ num_contigs <= contig_cutoff[1]
            /\ genome_size_min[1] <= genome_size
            /\ genome_size <= genome_size_max[1]
            /\ gc_content_min[1] <= gc_content
            /\ gc_content <= gc_content_max[1]
         THEN "Eligible"
         ELSE "Not Eligible"

\* line 193
contigs_quality(num_contigs, con_cut) ==
    IF con_cut = None THEN ""
    ELSE IF num_contigs <= con_cut[1] THEN "Yes" ELSE "No"

\* line 194
genome_size_quality(genome_size, size_min, size_max) ==
    IF size_min = None \/ size_max = None THEN ""
    ELSE IF size_min[1] <= genome_size /\ genome_size <= size_max[1] THEN "Yes" ELSE "No"

\* line 195
gc_content_range(gc_content_rounded, gc_min, gc_max) ==
    IF gc_min = None \/ gc_max = None THEN ""
    ELSE IF ~(gc_min[1] <= gc_content_rounded /\ gc_content_rounded <= gc_max[1])
         THEN "Warning" ELSE "-"

----------------------------------------------------------------------------
(* Command line, lines 220-231 *)

\* The namespace parse_args builds from the options given on the command
\* line.  Each attribute is named after the first long option string of its
\* add_argument call, '-' replaced by '_': --con-cut gives con_cut, while
\* ('--smin', '--size_min') gives smin, and so on.
parse_args(argv) ==
    [con_cut    |-> argv.cc,
     smin       |-> argv.smin,
     smax       |-> argv.smax,
     gcmin      |-> argv.gcmin,
     gcmax      |-> argv.gcmax,
     contig_lim |-> IF argv.cl = None THEN 500 ELSE argv.cl[1],
     input_file |-> argv.i]

hasattr(namespace, name) == name \in DOMAIN namespace

----------------------------------------------------------------------------
(* Files *)

FileName(stem, ext) == [stem |-> stem, ext |-> ext]

endswith_fasta(file_name) == file_name.ext = ".fasta"

os_path_join(input_dir, file_name) == [dir |-> input_dir, name |-> file_name]

os_path_basename(file_path) == file_path.name

Rec(length, g, c) == [length |-> length, G |-> g, C |-> c]

\* The entries a working directory may hold
DirNames ==
    {FileName("a", ".fasta"), FileName("b", ".fasta"), FileName("empty", ".fasta"),
     FileName("zero", ".fasta"), FileName("notes", ".txt")}

\* The records of each file of the working directory
MainFiles ==
    LET cwd(stem, ext) == os_path_join("cwd", FileName(stem, ext))
    IN  (cwd("a", ".fasta") :> <<Rec(100, 25, 25), Rec(200, 50, 50), Rec(300, 100, 0)>>)
     @@ (cwd("b", ".fasta") :> <<Rec(400, 200, 200), Rec(600, 0, 0)>>)
     @@ (cwd("empty", ".fasta") :> <<>>)
     @@ (cwd("zero", ".fasta") :> <<Rec(400, 100, 100), Rec(0, 0, 0)>>)
     @@ (cwd("notes", ".txt") :> <<Rec(100, 25, 25), Rec(200, 50, 50), Rec(300, 100, 0)>>)

RECURSIVE SeqsUpTo(_, _)
SeqsUpTo(S, n) ==
    IF n = 0 THEN {<<>>}
    ELSE LET shorter == SeqsUpTo(S, n - 1)
         IN  shorter \cup {Append(q, x) : q \in {t \in shorter : Len(t) = n - 1}, x \in S}

NoDuplicates(q) == \A i, j \in 1..Len(q) : q[i] = q[j] => i = j

Listings == {q \in SeqsUpTo(DirNames, MaxFiles) : NoDuplicates(q)}

Optional(S) == {None} \cup {Some(v) : v \in S}

Argv ==
    [cc    : Optional(1..MaxCutoff),
     smin  : Optional({300, 700}),
     smax  : Optional({500}),
     gcmin : Optional({4000, 6000}),
     gcmax : Optional({5000}),
     cl    : Optional({300}),
     i     : Optional({os_path_join("cwd", FileName("a", ".fasta")),
                       os_path_join("cwd", FileName("missing", ".fasta"))})]

----------------------------------------------------------------------------
(* main *)

Init ==
    /\ args \in {parse_args(argv) : argv \in Argv}
    /\ listdir \in Listings
    /\ files = MainFiles
    /\ input_files = <<>>
    /\ pc = "start"
    /\ idx = 0
    /\ fasta_file_count = 0
    /\ locals = None
    /\ data = <<>>
    /\ reports = None
    /\ stdout = None
    /\ exc = None
    /\ call = None
    /\ ret = None

RECURSIVE FastaPaths(_, _)
FastaPaths(input_dir, names) ==
    IF names = <<>> THEN <<>>
    ELSE IF endswith_fasta(names[1])
         THEN <<os_path_join(input_dir, names[1])>> \o FastaPaths(input_dir, Tail(names))
         ELSE FastaPaths(input_dir, Tail(names))

\* lines 172-188
DiscoverFiles ==
    /\ pc = "start"
    /\ input_files' = IF args.input_file # None THEN <<args.input_file[1]>>
                      ELSE FastaPaths("cwd", listdir)
    /\ data' = <<>>
    /\ fasta_file_count' = 0
    /\ pc' = "loop"
    /\ UNCHANGED <<args, listdir, files, idx, locals, reports, stdout, exc, call, ret>>

\* lines 190-191
NextFile ==
    /\ pc = "loop"
    /\ idx < Len(input_files)
    /\ idx' = idx + 1
    /\ fasta_file_count' = fasta_file_count + 1
    /\ pc' = "process"
    /\ UNCHANGED <<args, listdir, files, input_files, locals, data, reports, stdout,
                   exc, call, ret>>

\* line 192: cont_size_limit is not passed, so it takes its default
ProcessFile ==
    /\ pc = "process"
    /\ LET r == process_fasta_file(input_files[idx], cont_size_limit_default)
       IN  IF r.kind = "raise"
           THEN /\ pc' = "aborted"
                /\ exc' = r.exc
                /\ UNCHANGED locals
           ELSE /\ pc' = "classify"
                /\ locals' = r.value
                /\ UNCHANGED exc
    /\ UNCHANGED <<args, listdir, files, input_files, idx, fasta_file_count, data,
                   reports, stdout, call, ret>>

\* The attributes lines 193-196 read from args
ThresholdAttrs == {"con_cut", "size_min", "size_max", "gc_min", "gc_max"}

\* lines 197-209
ResultRecord(file_path, m, a) ==
    [File |-> os_path_basename(file_path),
     N50 |-> m.n50,
     L50 |-> m.l50,
     Num_Contigs |-> m.num_contigs,
     Contigs_Shorter_Than_500 |-> m.contigs_shorter_than_limit,
     Contigs_Quality |-> contigs_quality(m.num_contigs, a.con_cut),
     Genome_Size |-> m.genome_size,
     Genome_Size_Quality |-> genome_size_quality(m.genome_size, a.size_min, a.size_max),
     GC_Content |-> m.gc_content_rounded,
     GC_Content_Range |-> gc_content_range(m.gc_content_rounded, a.gc_min, a.gc_max),
     Eligibility |-> assess_eligibility(m.num_contigs, m.genome_size, m.gc_content_rounded,
                         a.con_cut, a.size_min, a.size_max, a.gc_min, a.gc_max)]

\* lines 193-209: reading an attribute the namespace lacks raises
\* AttributeError
ClassifyAndAppend ==
    /\ pc = "classify"
    /\ IF \E name \in ThresholdAttrs : ~hasattr(args, name)
       THEN /\ pc' = "aborted"
            /\ exc' = "AttributeError"
            /\ UNCHANGED data
       ELSE /\ data' = Append(data, ResultRecord(input_files[idx], locals, args))
            /\ pc' = "loop"
            /\ UNCHANGED exc
    /\ UNCHANGED <<args, listdir, files, input_files, idx, fasta_file_count, locals,
                   reports, stdout, call, ret>>

\* lines 212-217, after the loop has consumed input_files
GenerateReports ==
    /\ pc = "loop"
    /\ idx = Len(input_files)
    /\ reports' = [txt |-> data, xlsx |-> data, html |-> data]
    /\ stdout' = Some(fasta_file_count)
    /\ pc' = "done"
    /\ UNCHANGED <<args, listdir, files, input_files, idx, fasta_file_count, locals,
                   data, exc, call, ret>>

Next ==
    \/ DiscoverFiles
    \/ NextFile
    \/ ProcessFile
    \/ ClassifyAndAppend
    \/ GenerateReports

Spec == Init /\ [][Next]_vars

----------------------------------------------------------------------------
(* The metrics functions called on their own *)

UnitPath == os_path_join("unit", FileName("x", ".fasta"))

ContigLengths == {100 * k : k \in 1..MaxLenUnits}

\* Records: no bases at all, or a contig with 0 %, 50 % or 100 % of G and C
Records ==
    {Rec(0, 0, 0)} \cup
    {Rec(l, (l \div 4) * quarters, (l \div 4) * quarters) :
        l \in ContigLengths, quarters \in 0..2}

Lengths(records) == [i \in 1..Len(records) |-> records[i].length]

InitMetrics ==
    /\ files \in {UnitPath :> records : records \in SeqsUpTo(Records, MaxContigs)}
    /\ args = None
    /\ listdir = <<>>
    /\ input_files = <<>>
    /\ pc = "unit"
    /\ idx = 0
    /\ fasta_file_count = 0
    /\ locals = None
    /\ data = <<>>
    /\ reports = None
    /\ stdout = None
    /\ exc = None
    /\ call = None
    /\ ret = None

CallCalculateN50 ==
    /\ ret = None
    /\ ret' = [fn |-> "calculate_N50", limit |-> None,
               out |-> Return(calculate_N50(Lengths(files[UnitPath])))]
    /\ UNCHANGED <<mainVars, files, call>>

CallCalculateL50 ==
    /\ ret = None
    /\ ret' = [fn |-> "calculate_L50", limit |-> None,
               out |-> Return(calculate_L50(Lengths(files[UnitPath])))]
    /\ UNCHANGED <<mainVars, files, call>>

CallProcessFastaFile ==
    /\ ret = None
    /\ \E cont_size_limit \in {cont_size_limit_default, 300} :
          ret' = [fn |-> "process_fasta_file", limit |-> Some(cont_size_limit),
                  out |-> process_fasta_file(UnitPath, cont_size_limit)]
    /\ UNCHANGED <<mainVars, files, call>>

NextMetrics ==
    \/ CallCalculateN50
    \/ CallCalculateL50
    \/ CallProcessFastaFile

SpecMetrics == InitMetrics /\ [][NextMetrics]_vars

----------------------------------------------------------------------------
(* assess_eligibility called on its own *)

EligibilityCalls ==
    [num_contigs     : 1..(MaxCutoff + 1),
     genome_size     : ContigLengths,
     gc_content      : {3000, 5000, 7000},
     contig_cutoff   : Optional(1..MaxCutoff),
     genome_size_min : Optional({200, 400}),
     genome_size_max : Optional({300, 500}),
     gc_content_min  : Optional({4000, 6000}),
     gc_content_max  : Optional({5000, 8000})]

InitEligibility ==
    /\ call \in EligibilityCalls
    /\ files = MainFiles
    /\ args = None
    /\ listdir = <<>>
    /\ input_files = <<>>
    /\ pc = "unit"
    /\ idx = 0
    /\ fasta_file_count = 0
    /\ locals = None
    /\ data = <<>>
    /\ reports = None
    /\ stdout = None
    /\ exc = None
    /\ ret = None

CallAssessEligibility ==
    /\ ret = None
    /\ ret' = [fn |-> "assess_eligibility", limit |-> None,
               out |-> Return(assess_eligibility(call.num_contigs, call.genome_size,
                          call.gc_content, call.contig_cutoff, call.genome_size_min,
                          call.genome_size_max, call.gc_content_min,
                          call.gc_content_max))]
    /\ UNCHANGED <<mainVars, files, call>>

NextEligibility == CallAssessEligibility

SpecEligibility == InitEligibility /\ [][NextEligibility]_vars

----------------------------------------------------------------------------
(* Properties of the metrics functions *)

RECURSIVE SumOver(_, _)
SumOver(L, S) ==
    IF S = {} THEN 0
    ELSE LET i == CHOOSE j \in S : TRUE IN L[i] + SumOver(L, S \ {i})

\* Some k contigs of L (hence the k longest) total at least half of sum(L)
Covers(L, k) ==
    \E S \in SUBSET (1..Len(L)) :
        Cardinality(S) = k /\ 2 * SumOver(L, S) >= SumOver(L, 1..Len(L))

\* The least number of longest contigs covering half of the total
MinCover(L) == CHOOSE k \in 1..Len(L) : Covers(L, k) /\ \A j \in 1..(k - 1) : ~Covers(L, j)

\* v is the length of the k-th longest contig of L
IsKthLongest(L, k, v) ==
    /\ \E i \in 1..Len(L) : L[i] = v
    /\ Cardinality({i \in 1..Len(L) : L[i] > v}) < k
    /\ k <= Cardinality({i \in 1..Len(L) : L[i] >= v})

PositiveNonEmpty(L) == Len(L) >= 1 /\ \A i \in 1..Len(L) : L[i] > 0

Called(fn) == ret # None /\ ret.fn = fn

UnitLengths == Lengths(files[UnitPath])

\* C5: for a non-empty list of positive lengths, calculate_L50 returns
\* (length, count) with count the least k such that the k longest contigs
\* total at least sum(L)/2, and length the length of the k-th longest contig.
C5_L50IsMinimalCover ==
    (Called("calculate_L50") /\ PositiveNonEmpty(UnitLengths)) =>
        /\ ret.out.kind = "return"
        /\ Len(ret.out.value) = 2
        /\ ret.out.value[2] \in 1..Len(UnitLengths)
        /\ Covers(UnitLengths, ret.out.value[2])
        /\ \A k \in 1..(ret.out.value[2] - 1) : ~Covers(UnitLengths, k)
        /\ IsKthLongest(UnitLengths, ret.out.value[2], ret.out.value[1])

\* C5 witness: calculate_L50 has needed more than one contig, on a list whose
\* contigs differ in length
C5_Witness ==
    /\ Called("calculate_L50")
    /\ PositiveNonEmpty(UnitLengths)
    /\ ret.out.value[2] >= 2
    /\ \E i, j \in 1..Len(UnitLengths) : UnitLengths[i] < UnitLengths[j]

\* C6: for a non-empty list of positive lengths, the value calculate_N50
\* returns is the length of the shortest contig in the minimal set of longest
\* contigs that covers at least half of sum(L).
C6_N50IsShortestOfMinimalCover ==
    (Called("calculate_N50") /\ PositiveNonEmpty(UnitLengths)) =>
        /\ ret.out.kind = "return"
        /\ ret.out.value # None
        /\ IsKthLongest(UnitLengths, MinCover(UnitLengths), ret.out.value[1])

\* C8: on an empty contig set calculate_N50, calculate_L50 and
\* process_fasta_file each end in an error; none returns a value.
C8_EmptyInputIsAnError ==
    (ret # None /\ ret.fn \in {"calculate_N50", "calculate_L50", "process_fasta_file"}
                /\ files[UnitPath] = <<>>)
        => ret.out.kind = "raise"

----------------------------------------------------------------------------
(* Properties of assess_eligibility *)

\* C3: assess_eligibility returns "" whenever one of the five thresholds is
\* absent, whatever the metrics; with all five present it returns "Eligible"
\* if and only if num_contigs <= contig_cutoff and genome_size and gc_content
\* lie within their ranges, and "Not Eligible" otherwise.
C3_EligibilityVerdict ==
    Called("assess_eligibility") =>
        LET absent == \E f \in {"contig_cutoff", "genome_size_min", "genome_size_max",
                                "gc_content_min", "gc_content_max"} : call[f] = None
            passes == /\ call.num_contigs <= call.contig_cutoff[1]
                      /\ call.genome_size_min[1] <= call.genome_size
                      /\ call.genome_size <= call.genome_size_max[1]
                      /\ call.gc_content_min[1] <= call.gc_content
                      /\ call.gc_content <= call.gc_content_max[1]
        IN  /\ ret.out.kind = "return"
            /\ absent => ret.out.value = ""
            /\ ~absent => ret.out.value \in {"Eligible", "Not Eligible"}
            /\ ~absent => (ret.out.value = "Eligible" <=> passes)

\* C3 witness: a call with all five thresholds present that passes with the
\* contig count exactly at the cutoff
C3_Witness ==
    /\ Called("assess_eligibility")
    /\ ret.out.value = "Eligible"
    /\ call.num_contigs = call.contig_cutoff[1]

----------------------------------------------------------------------------
(* Properties of a run of main *)

\* What line 192 yields for the i-th input file
Assessed(i) == process_fasta_file(input_files[i], cont_size_limit_default)

\* The iteration of the i-th input file has started and is over
IterationOver(i) == i < idx \/ (i = idx /\ pc \notin {"process", "classify"})

RunEnded == pc \in {"done", "aborted"}

\* C1: when some input file fails to be assessed the run does not abort: it
\* reaches report generation, with exactly one result per valid file and none
\* for the failing one.
C1_BadFileIsSkipped ==
    LET failing == {i \in 1..Len(input_files) : Assessed(i).kind = "raise"}
    IN  failing # {} =>
            /\ pc # "aborted"
            /\ pc = "done" => Len(data) = Len(input_files) - Cardinality(failing)

\* C2: in every state of the file loop and at the end of the run the
\* processed-file counter equals the number of result records appended.
C2_CounterCountsResults ==
    /\ fasta_file_count = Len(data)
    /\ pc = "done" => stdout = Some(Len(data))

Between(lo, x, hi) == lo <= x /\ x <= hi

\* C4: every assessed file gets its three quality flags: each is "" exactly
\* when a bound it needs was not configured, and otherwise reports the
\* comparison of the metric with the configured bounds.
C4_FlagsFollowThresholds ==
    \A i \in 1..Len(input_files) :
        (IterationOver(i) /\ Assessed(i).kind = "return") =>
            LET m == Assessed(i).value
            IN  \E j \in 1..Len(data) :
                  /\ data[j].File = os_path_basename(input_files[i])
                  /\ data[j].Contigs_Quality =
                        (IF args.con_cut = None THEN ""
                         ELSE IF m.num_contigs <= args.con_cut[1] THEN "Yes" ELSE "No")
                  /\ data[j].Genome_Size_Quality =
                        (IF args.smin = None \/ args.smax = None THEN ""
                         ELSE IF Between(args.smin[1], m.genome_size, args.smax[1])
                              THEN "Yes" ELSE "No")
                  /\ data[j].GC_Content_Range =
                        (IF args.gcmin = None \/ args.gcmax = None THEN ""
                         ELSE IF Between(args.gcmin[1], m.gc_content_rounded, args.gcmax[1])
                              THEN "-" ELSE "Warning")

\* The number of contigs of the i-th input file shorter than limit
ShorterThan(i, limit) ==
    LET records == files[input_files[i]]
    IN  Cardinality({k \in 1..Len(records) : records[k].length < limit})

\* C7: the short-contig count of an assessed file is the number of its contigs
\* strictly shorter than the configured short_contig_limit (500 by default).
C7_ShortCountUsesConfiguredLimit ==
    /\ pc = "classify" =>
          locals.contigs_shorter_than_limit = ShorterThan(idx, args.contig_lim)
    /\ \A j \in 1..Len(data) :
          data[j].Contigs_Shorter_Than_500 = ShorterThan(j, args.contig_lim)

InconsistentBounds ==
    \/ args.smin # None /\ args.smax # None /\ args.smin[1] > args.smax[1]
    \/ args.gcmin # None /\ args.gcmax # None /\ args.gcmin[1] > args.gcmax[1]

\* C9: with genome_size_min > genome_size_max or gc_min > gc_max the run is
\* rejected before any file is processed: no file is assessed, no result
\* record is produced.
C9_InconsistentBoundsRejected ==
    InconsistentBounds =>
        /\ idx = 0
        /\ fasta_file_count = 0
        /\ locals = None
        /\ data = <<>>
        /\ pc \notin {"process", "classify", "done"}

\* C10: when every input file is valid, the run ends with one record per
\* input file, the i-th record being the result of the i-th file.
C10_OneRecordPerFileInOrder ==
    (RunEnded /\ \A i \in 1..Len(input_files) : Assessed(i).kind = "return") =>
        /\ pc = "done"
        /\ Len(data) = Len(input_files)
        /\ \A i \in 1..Len(input_files) :
              /\ data[i].File = os_path_basename(input_files[i])
              /\ data[i].Num_Contigs = Assessed(i).value.num_contigs
              /\ data[i].Genome_Size = Assessed(i).value.genome_size

====
